---- MODULE Spec2Model ----
(***************************************************************************)
(* Model of the geospatial preprocessing toolkit:                          *)
(*   - scripts/preprocessing/r/mosaic_rasters.R  (raster mosaicking)       *)
(*   - the Earth Engine utility functions exportImageCollection,           *)
(*     exportBandsByYear and filterCollectionByBands                       *)
(*   - sentinel_indices_and_masks.js (addNDRE3, addRDI)                    *)
(***************************************************************************)
EXTENDS Integers, Sequences, FiniteSets, TLC

(***************************************************************************)
(* Bounds of the model.                                                    *)
(***************************************************************************)
MaxFiles == 3
MaxBatchSize == 3

(***************************************************************************)
(* State of one call of a mosaic function.                                 *)
(***************************************************************************)
VARIABLES
  fn,            \* the function called: "none", "directory", "list", "batches"
  pc,            \* position in the function
  dir_contents,  \* the files of the directory (directory call)
  path_name,
  raster_files,  \* the files to mosaic (fl in mosaic_rasters_in_directory)
  fun,
  batch_size,
  loop_seq,      \* the values of the for loop's sequence
  loop_k,        \* number of completed iterations
  batch_files,
  rsrc,          \* the raster collection held, NULL when none
  batch_mosaic,
  final_mosaic,  \* m in mosaic_rasters_in_directory and _in_list
  export_file,   \* content of export_filename on disk, NULL when absent
  ret,           \* the returned value, NULL before the return
  err,           \* the message of stop(), "" when none
  log,           \* the calls made to terra so far, in order
  batches,       \* history: the start index and the files of every batch
  old_export     \* history: export_file when the function was called

mvars == <<fn, pc, dir_contents, path_name, raster_files, fun, batch_size,
           loop_seq, loop_k, batch_files, rsrc, batch_mosaic, final_mosaic,
           export_file, ret, err, log, batches, old_export>>

(***************************************************************************)
(* State of one call of an export function.                                *)
(***************************************************************************)
VARIABLES
  xfn,        \* the export function called
  xpc,        \* "idle", "loop", "done", or "raised": an error left the function
  outcomes,   \* per image: what fileNameFn, clip and export do (the inputs)
  size,       \* collection.size().getInfo()
  i,          \* the loop index
  tasks,      \* the export tasks submitted, in order
  printed     \* the lines printed, with the image they were printed for

xvars == <<xfn, xpc, outcomes, size, i, tasks, printed>>

(***************************************************************************)
(* State of one call of a band function of an image or a collection.       *)
(***************************************************************************)
VARIABLES
  icall,      \* the function applied: "none" before any call
  iarg,       \* its arguments
  iresult     \* what it returned

ivars == <<icall, iarg, iresult>>

(***************************************************************************)
(* State of one run of the terrain metrics script.                         *)
(***************************************************************************)
VARIABLES
  tpc,        \* position of the script: "start", "requested", "finished"
  pending,    \* the evaluate requests whose callback has not run yet
  console,    \* the lines printed, in order
  exports     \* the export tasks submitted, in order

tvars == <<tpc, pending, console, exports>>

vars == <<mvars, xvars, ivars, tvars>>

\* the state of the other groups of functions
NotMosaic == <<xvars, ivars, tvars>>
NotExport == <<mvars, ivars, tvars>>
NotIndex == <<mvars, xvars, tvars>>
NotTerrain == <<mvars, xvars, ivars>>

(***************************************************************************)
(* Rasters.  A raster is a tuple of cells, one per pixel of a common grid. *)
(* A cell is a rational <<n, d>> in lowest terms with d > 0, or NA (no     *)
(* data: the raster does not cover the pixel).  NULL is R's NULL.          *)
(***************************************************************************)
Pixels == {1, 2}
NA == <<0, 0>>
V0 == <<0, 1>>
V1 == <<1, 1>>
NULL == <<>>

RECURSIVE GCD(_, _)
GCD(a, b) == IF b = 0 THEN a ELSE GCD(b, a % b)

Frac(n, d) == LET g == GCD(n, d) IN <<n \div g, d \div g>>

FracAdd(x, y) == Frac(x[1] * y[2] + y[1] * x[2], x[2] * y[2])

FracLeq(x, y) == x[1] * y[2] <= y[1] * x[2]

RECURSIVE SumSeq(_)
SumSeq(vals) ==
  IF Len(vals) = 1 THEN vals[1] ELSE FracAdd(vals[1], SumSeq(Tail(vals)))

RECURSIVE MinSeq(_)
MinSeq(vals) ==
  IF Len(vals) = 1 THEN vals[1]
  ELSE LET r == MinSeq(Tail(vals)) IN IF FracLeq(vals[1], r) THEN vals[1] ELSE r

RECURSIVE MaxSeq(_)
MaxSeq(vals) ==
  IF Len(vals) = 1 THEN vals[1]
  ELSE LET r == MaxSeq(Tail(vals)) IN IF FracLeq(r, vals[1]) THEN vals[1] ELSE r

Funs == {"mean", "sum", "min", "max"}

\* fun applied to a non-empty sequence of cell values
Aggregate(f, vals) ==
  CASE f = "sum" -> SumSeq(vals)
    [] f = "min" -> MinSeq(vals)
    [] f = "max" -> MaxSeq(vals)
    [] OTHER -> LET s == SumSeq(vals) IN Frac(s[1], s[2] * Len(vals))

\* the values of the rasters rs that cover pixel p, in order
RECURSIVE Covering(_, _)
Covering(rs, p) ==
  IF rs = <<>> THEN <<>>
  ELSE IF Head(rs)[p] = NA THEN Covering(Tail(rs), p)
       ELSE <<Head(rs)[p]>> \o Covering(Tail(rs), p)

\* terra::mosaic of the rasters rs: per pixel, fun over the covering rasters
Mosaic(rs, f) ==
  [p \in Pixels |->
     LET vals == Covering(rs, p)
     IN IF vals = <<>> THEN NA ELSE Aggregate(f, vals)]

(***************************************************************************)
(* The files on disk.  A file name is a sequence of characters.            *)
(***************************************************************************)
FilePool ==
  << [name |-> <<"a", ".", "t", "i", "f">>, raster |-> <<V0, NA>>],
     [name |-> <<"b", ".", "t", "i", "f">>, raster |-> <<V1, V1>>],
     [name |-> <<"c", ".", "T", "I", "F">>, raster |-> <<V1, V0>>],
     [name |-> <<"d", ".", "t", "i", "f">>, raster |-> <<NA, V0>>],
     [name |-> <<"e", "t", "i", "f">>,      raster |-> <<V0, V0>>] >>

Files == 1 .. Len(FilePool)

\* terra::sprc: the collection of the rasters read from the files fs
sprc(fs) == [k \in 1 .. Len(fs) |-> FilePool[fs[k]].raster]

\* the pattern with its dot left unescaped: any character, then "tif"
MatchesTif_UnescapedDot(name) ==
  /\ Len(name) >= 4
  /\ SubSeq(name, Len(name) - 2, Len(name)) = <<"t", "i", "f">>

\* the regular expression '\\.tif$' of list.files
MatchesTif(name) ==
  /\ Len(name) >= 4
  /\ SubSeq(name, Len(name) - 3, Len(name)) = <<".", "t", "i", "f">>

endsWith(path, ch) == Len(path) >= 1 /\ path[Len(path)] = ch

\* paste0(path_name, "/") unless the path already ends with a slash
NormalisePath(path) == IF ~endsWith(path, "/") THEN path \o <<"/">> ELSE path

TheDir == <<"d", "/">>
PathNames == {<<"d">>, <<"d", "/">>}

\* the files of the set s in increasing order (list.files sorts its result)
RECURSIVE SortedSeq(_)
SortedSeq(s) ==
  IF s = {} THEN <<>>
  ELSE LET lo == CHOOSE x \in s : \A y \in s : x <= y
       IN <<lo>> \o SortedSeq(s \ {lo})

\* list.files(path, pattern = '\\.tif$', recursive = TRUE, full.names = TRUE)
ListFiles(path, contents) ==
  IF path = TheDir
  THEN SortedSeq({f \in contents : MatchesTif(FilePool[f].name)})
  ELSE <<>>

\* seq(1, num_files, by = batch_size)
RECURSIVE SeqBy(_, _, _)
SeqBy(from, to, by) ==
  IF from > to THEN <<>> ELSE <<from>> \o SeqBy(from + by, to, by)

Min2(a, b) == IF a <= b THEN a ELSE b

\* the batch end taken one index too far
BatchEnd_OffByOne(start, bs, n) == Min2(start + bs, n)

\* the last index of the batch that starts at index start
BatchEnd(start, bs, n) == Min2(start + bs - 1, n)

\* the merge of a batch mosaic into final_mosaic
MergeBatch(final, batch, f) ==
  IF final = NULL THEN batch ELSE Mosaic(<<final, batch>>, f)

\* writeRaster without overwrite: an existing file keeps its content
writeRaster_NoOverwrite(existing, x) == IF existing = NULL THEN x ELSE existing

\* terra::writeRaster(x, filename, overwrite = TRUE): the file's new content
writeRaster(existing, x) == x

OldRaster == <<V1, NA>>

MosaicInit ==
  /\ fn = "none"
  /\ pc = "idle"
  /\ dir_contents = {}
  /\ path_name = <<>>
  /\ raster_files = <<>>
  /\ fun = "mean"
  /\ batch_size = 10
  /\ loop_seq = <<>>
  /\ loop_k = 0
  /\ batch_files = <<>>
  /\ rsrc = NULL
  /\ batch_mosaic = NULL
  /\ final_mosaic = NULL
  /\ export_file \in {NULL, OldRaster}
  /\ ret = NULL
  /\ err = ""
  /\ log = <<>>
  /\ batches = <<>>
  /\ old_export = export_file

FileLists == UNION {[1 .. n -> Files] : n \in 0 .. MaxFiles}

\* ---- mosaic_rasters_in_directory ----

CallDirectory ==
  /\ pc = "idle"
  /\ \E p \in PathNames, c \in SUBSET Files, f \in Funs :
       /\ Cardinality(c) <= MaxFiles
       /\ path_name' = p
       /\ dir_contents' = c
       /\ fun' = f
  /\ fn' = "directory"
  /\ pc' = "check"
  /\ UNCHANGED <<raster_files, batch_size, loop_seq, loop_k, batch_files, rsrc,
                 batch_mosaic, final_mosaic, export_file, ret, err, log, batches, old_export>>
  /\ UNCHANGED NotMosaic

DirectoryCheck ==
  /\ fn = "directory" /\ pc = "check"
  /\ path_name' = NormalisePath(path_name)
  /\ raster_files' = ListFiles(path_name', dir_contents)
  /\ IF Len(raster_files') = 0
     THEN /\ err' = "No .tif files found in the specified directory."
          /\ pc' = "stopped"
     ELSE /\ err' = err
          /\ pc' = "mosaic"
  /\ UNCHANGED <<fn, dir_contents, fun, batch_size, loop_seq, loop_k,
                 batch_files, rsrc, batch_mosaic, final_mosaic, export_file,
                 ret, log, batches, old_export>>
  /\ UNCHANGED NotMosaic

\* ---- mosaic_rasters_in_list ----

CallList ==
  /\ pc = "idle"
  /\ \E fs \in FileLists, f \in Funs :
       /\ raster_files' = fs
       /\ fun' = f
  /\ fn' = "list"
  /\ pc' = "check"
  /\ UNCHANGED <<dir_contents, path_name, batch_size, loop_seq, loop_k,
                 batch_files, rsrc, batch_mosaic, final_mosaic, export_file,
                 ret, err, log, batches, old_export>>
  /\ UNCHANGED NotMosaic

ListCheck ==
  /\ fn = "list" /\ pc = "check"
  /\ IF Len(raster_files) = 0
     THEN /\ err' = "No raster files provided for mosaicking."
          /\ pc' = "stopped"
     ELSE /\ err' = err
          /\ pc' = "mosaic"
  /\ UNCHANGED <<fn, dir_contents, path_name, raster_files, fun, batch_size,
                 loop_seq, loop_k, batch_files, rsrc, batch_mosaic,
                 final_mosaic, export_file, ret, log, batches, old_export>>
  /\ UNCHANGED NotMosaic

\* sprc, mosaic, rm(rsrc), gc(): shared text of _in_directory and _in_list
WholeMosaic ==
  /\ fn \in {"directory", "list"} /\ pc = "mosaic"
  /\ final_mosaic' = Mosaic(sprc(raster_files), fun)
  /\ rsrc' = NULL
  /\ log' = log \o <<"sprc", "mosaic">>
  /\ pc' = "write"
  /\ UNCHANGED <<fn, dir_contents, path_name, raster_files, fun, batch_size,
                 loop_seq, loop_k, batch_files, batch_mosaic, export_file,
                 ret, err, batches, old_export>>
  /\ UNCHANGED NotMosaic

\* terra::writeRaster(..., overwrite = TRUE) and return
WriteAndReturn ==
  /\ fn \in {"directory", "list", "batches"} /\ pc = "write"
  /\ export_file' = writeRaster(export_file, final_mosaic)
  /\ ret' = final_mosaic
  /\ log' = Append(log, "writeRaster")
  /\ pc' = "done"
  /\ UNCHANGED <<fn, dir_contents, path_name, raster_files, fun, batch_size,
                 loop_seq, loop_k, batch_files, rsrc, batch_mosaic,
                 final_mosaic, err, batches, old_export>>
  /\ UNCHANGED NotMosaic

\* ---- mosaic_rasters_in_batches ----

CallBatches ==
  /\ pc = "idle"
  /\ \E fs \in FileLists, f \in Funs, bs \in 1 .. MaxBatchSize :
       /\ raster_files' = fs
       /\ fun' = f
       /\ batch_size' = bs
  /\ fn' = "batches"
  /\ pc' = "check"
  /\ UNCHANGED <<dir_contents, path_name, loop_seq, loop_k, batch_files, rsrc,
                 batch_mosaic, final_mosaic, export_file, ret, err, log, batches, old_export>>
  /\ UNCHANGED NotMosaic

BatchesCheck ==
  /\ fn = "batches" /\ pc = "check"
  /\ IF Len(raster_files) = 0
     THEN /\ err' = "No raster files provided for mosaicking."
          /\ pc' = "stopped"
          /\ UNCHANGED <<final_mosaic, loop_seq>>
     ELSE /\ err' = err
          /\ final_mosaic' = NULL
          /\ loop_seq' = SeqBy(1, Len(raster_files), batch_size)
          /\ pc' = "load"
  /\ UNCHANGED <<fn, dir_contents, path_name, raster_files, fun, batch_size,
                 loop_k, batch_files, rsrc, batch_mosaic, export_file, ret,
                 log, batches, old_export>>
  /\ UNCHANGED NotMosaic

\* batch_files <- raster_files[i:min(...)]; rsrc <- terra::sprc(batch_files)
BatchLoad ==
  /\ fn = "batches" /\ pc = "load"
  /\ loop_k < Len(loop_seq)
  /\ LET start == loop_seq[loop_k + 1]
     IN batch_files' =
          SubSeq(raster_files, start,
                 BatchEnd(start, batch_size, Len(raster_files)))
  /\ batches' = Append(batches, [lo |-> loop_seq[loop_k + 1],
                                 files |-> batch_files'])
  /\ rsrc' = sprc(batch_files')
  /\ log' = Append(log, "sprc")
  /\ pc' = "batch_mosaic"
  /\ UNCHANGED <<fn, dir_contents, path_name, raster_files, fun, batch_size,
                 loop_seq, loop_k, batch_mosaic, final_mosaic, export_file,
                 ret, err, old_export>>
  /\ UNCHANGED NotMosaic

BatchMosaic ==
  /\ fn = "batches" /\ pc = "batch_mosaic"
  /\ batch_mosaic' = Mosaic(rsrc, fun)
  /\ log' = Append(log, "mosaic")
  /\ pc' = "merge"
  /\ UNCHANGED <<fn, dir_contents, path_name, raster_files, fun, batch_size,
                 loop_seq, loop_k, batch_files, rsrc, final_mosaic,
                 export_file, ret, err, batches, old_export>>
  /\ UNCHANGED NotMosaic

BatchMerge ==
  /\ fn = "batches" /\ pc = "merge"
  /\ final_mosaic' = MergeBatch(final_mosaic, batch_mosaic, fun)
  /\ log' = IF final_mosaic = NULL THEN log ELSE Append(log, "merge")
  /\ pc' = "cleanup"
  /\ UNCHANGED <<fn, dir_contents, path_name, raster_files, fun, batch_size,
                 loop_seq, loop_k, batch_files, rsrc, batch_mosaic,
                 export_file, ret, err, batches, old_export>>
  /\ UNCHANGED NotMosaic

\* the cleanup without the call of terra::tmpFiles
BatchCleanup_NoTmpFiles ==
  /\ fn = "batches" /\ pc = "cleanup"
  /\ rsrc' = NULL
  /\ batch_mosaic' = NULL
  /\ loop_k' = loop_k + 1
  /\ pc' = IF loop_k + 1 < Len(loop_seq) THEN "load" ELSE "write"
  /\ UNCHANGED <<fn, dir_contents, path_name, raster_files, fun, batch_size,
                 loop_seq, batch_files, final_mosaic, export_file, ret, err,
                 log, batches, old_export>>
  /\ UNCHANGED NotMosaic

\* rm(rsrc, batch_mosaic); gc(); terra::tmpFiles(remove = TRUE)
BatchCleanup ==
  /\ fn = "batches" /\ pc = "cleanup"
  /\ rsrc' = NULL
  /\ batch_mosaic' = NULL
  /\ log' = Append(log, "tmpFiles")
  /\ loop_k' = loop_k + 1
  /\ pc' = IF loop_k + 1 < Len(loop_seq) THEN "load" ELSE "write"
  /\ UNCHANGED <<fn, dir_contents, path_name, raster_files, fun, batch_size,
                 loop_seq, batch_files, final_mosaic, export_file, ret, err, batches, old_export>>
  /\ UNCHANGED NotMosaic

MosaicNext ==
  \/ CallDirectory \/ DirectoryCheck
  \/ CallList \/ ListCheck
  \/ WholeMosaic \/ WriteAndReturn
  \/ CallBatches \/ BatchesCheck
  \/ BatchLoad \/ BatchMosaic \/ BatchMerge \/ BatchCleanup

(***************************************************************************)
(* JavaScript values, as far as the export functions look at them.         *)
(***************************************************************************)
Undefined == [t |-> "undefined", v |-> ""]
Null == [t |-> "null", v |-> ""]
Str(x) == [t |-> "string", v |-> x]
Num(x) == [t |-> "number", v |-> x]

\* the truthiness of a value (what ! negates)
ToBoolean(x) ==
  CASE x.t = "undefined" -> FALSE
    [] x.t = "null" -> FALSE
    [] x.t = "string" -> x.v # ""
    [] x.t = "number" -> x.v \notin {"0", "NaN"}
    [] OTHER -> TRUE

\* the typeof operator
TypeOf(x) == IF x.t = "null" THEN "object" ELSE x.t

\* the validation that lets every truthy value through
ValidFileName_OnlyTruthy(fileName) == ToBoolean(fileName)

\* the negation of: !fileName || typeof fileName !== 'string'
ValidFileName(fileName) ==
  ~(~ToBoolean(fileName) \/ TypeOf(fileName) # "string")

(***************************************************************************)
(* What happens when one item (an image, or a band of an image) is         *)
(* exported: what fileNameFn does for it, and whether the clip or the      *)
(* export call of the Earth Engine client throws.                          *)
(***************************************************************************)
Returns(x, f) == [kind |-> "return", val |-> x, fail |-> f]
Throws == [kind |-> "throw", val |-> Undefined, fail |-> "none"]

ImageOutcomes ==
  {Returns(x, "none") :
     x \in {Undefined, Null, Str(""), Str("s1"), Str("s2"), Num("0"), Num("7")}}
  \cup {Returns(Str("s1"), "clip"), Returns(Str("s1"), "export"), Throws}

BandOutcomes ==
  {Returns(x, "none") : x \in {Str(""), Str("s1"), Num("7")}}
  \cup {Returns(Str("s1"), "clip"), Returns(Str("s1"), "export"), Throws}

MaxImages == 3
MaxBandImages == 2
BandNames == <<"B4", "B8">>

NoThrow == [threw |-> FALSE, message |-> "", tasks |-> <<>>]
Threw(msg) == [threw |-> TRUE, message |-> msg, tasks |-> <<>>]

\* a task with a description of its own making
MakeTask_OtherDescription(j, band, fileName) ==
  [image |-> j, band |-> band, clip |-> "aoi", region |-> "aoi",
   description |-> Str("task"), fileNamePrefix |-> fileName]

\* the argument of Export.image.toDrive
MakeTask(j, band, fileName) ==
  [image |-> j, band |-> band, clip |-> "aoi", region |-> "aoi",
   description |-> fileName, fileNamePrefix |-> fileName]

\* the body of the try block of exportImageCollection for image j
ImageBody(o, j) ==
  IF o.kind = "throw" THEN Threw("fileNameFn failed")
  ELSE IF ~ValidFileName(o.val) THEN Threw("Invalid file name generated.")
  ELSE IF o.fail = "clip" THEN Threw("clip failed")
  ELSE IF o.fail = "export" THEN Threw("export failed")
  ELSE [NoThrow EXCEPT !.tasks = <<MakeTask(j, "all", o.val)>>]

\* a loop over the bands that catches the error of a band and goes on with
\* the next band
RECURSIVE BandsBody_SkipBad(_, _, _)
BandsBody_SkipBad(outs, j, k) ==
  IF k > Len(outs) THEN NoThrow
  ELSE LET o == outs[k]
           rest == BandsBody_SkipBad(outs, j, k + 1)
       IN IF o.fail # "none" \/ o.kind = "throw" \/ ~ValidFileName(o.val)
          THEN [rest EXCEPT !.threw = TRUE, !.message = "band failed"]
          ELSE [rest EXCEPT
                  !.tasks = <<MakeTask(j, BandNames[k], o.val)>> \o @]

\* bands.forEach(...) of exportBandsByYear for image j, from band k on
RECURSIVE BandsBody(_, _, _)
BandsBody(outs, j, k) ==
  IF k > Len(outs) THEN NoThrow
  ELSE LET o == outs[k]
       IN IF o.fail = "clip" THEN Threw("clip failed")
          ELSE IF o.kind = "throw" THEN Threw("fileNameFn failed")
          ELSE IF ~ValidFileName(o.val) THEN Threw("Invalid file name generated.")
          ELSE IF o.fail = "export" THEN Threw("export failed")
          ELSE LET rest == BandsBody(outs, j, k + 1)
               IN [rest EXCEPT
                     !.tasks = <<MakeTask(j, BandNames[k], o.val)>> \o @]

\* a catch block that leaves the loop
AfterCatch_Break(idx, n) == n

\* the loop index after the catch block: continue goes on to i++
AfterCatch(idx, n) == idx + 1

ExportInit ==
  /\ xfn = "none"
  /\ xpc = "idle"
  /\ outcomes = <<>>
  /\ size = 0
  /\ i = 0
  /\ tasks = <<>>
  /\ printed = <<>>

\* one pass of the for loop: the try block, the catch block and i++
LoopStep(r) ==
  /\ tasks' = tasks \o r.tasks
  /\ IF r.threw
     THEN /\ printed' = Append(printed, [image |-> i,
                                         text |-> "Error processing image:",
                                         message |-> r.message])
          /\ i' = AfterCatch(i, size)
     ELSE /\ printed' = printed
          /\ i' = i + 1
  /\ xpc' = IF i' < size THEN "loop" ELSE "done"
  /\ UNCHANGED <<xfn, outcomes, size>>

CallExportImageCollection ==
  /\ xpc = "idle"
  /\ \E n \in 0 .. MaxImages :
       \E outs \in [1 .. n -> ImageOutcomes] :
         /\ outcomes' = outs
         /\ size' = n
         /\ xpc' = IF 0 < n THEN "loop" ELSE "done"
  /\ xfn' = "exportImageCollection"
  /\ i' = 0
  /\ UNCHANGED <<tasks, printed>>
  /\ UNCHANGED NotExport

ExportImageStep ==
  /\ xfn = "exportImageCollection" /\ xpc = "loop"
  /\ LoopStep(ImageBody(outcomes[i + 1], i))
  /\ UNCHANGED NotExport

BandLists == UNION {[1 .. b -> BandOutcomes] : b \in 0 .. Len(BandNames)}

CallExportBandsByYear ==
  /\ xpc = "idle"
  /\ \E n \in 0 .. MaxBandImages :
       \E outs \in [1 .. n -> BandLists] :
         /\ outcomes' = outs
         /\ size' = n
         /\ xpc' = IF 0 < n THEN "loop" ELSE "done"
  /\ xfn' = "exportBandsByYear"
  /\ i' = 0
  /\ UNCHANGED <<tasks, printed>>
  /\ UNCHANGED NotExport

ExportBandsStep ==
  /\ xfn = "exportBandsByYear" /\ xpc = "loop"
  /\ LoopStep(BandsBody(outcomes[i + 1], i, 1))
  /\ UNCHANGED NotExport

ExportNext ==
  \/ CallExportImageCollection \/ ExportImageStep
  \/ CallExportBandsByYear \/ ExportBandsStep

(***************************************************************************)
(* Images and collections of the Earth Engine client.  An image is its     *)
(* ordered band names, the value of its hasAllBands property ("unset" when *)
(* it has none) and whether computing it fails on the server.              *)
(***************************************************************************)
BandPool == <<"B7", "B8A", "B12">>
MaxCollection == 2
MaxRequired == 2

Image(bs) == [bands |-> bs, hasAllBands |-> "unset", error |-> FALSE]
EEError == [bands |-> <<>>, hasAllBands |-> "unset", error |-> TRUE]

Range(seq) == {seq[k] : k \in DOMAIN seq}

\* the band names of the subset bs of the pool, in pool order
RECURSIVE BandsIn(_, _)
BandsIn(bs, k) ==
  IF k > Len(BandPool) THEN <<>>
  ELSE IF BandPool[k] \in bs THEN <<BandPool[k]>> \o BandsIn(bs, k + 1)
       ELSE BandsIn(bs, k + 1)

Images == {Image(BandsIn(bs, 1)) : bs \in SUBSET Range(BandPool)}

\* image.bandNames().contains(b) in client code: the proxy object of a
\* computation that has not run, whatever b is
ClientContains(image, b) == [t |-> "object", v |-> "ee.ComputedObject"]

\* bands.every(function(b) { return image.bandNames().contains(b); })
HasBands(image, bands) ==
  \A k \in DOMAIN bands : ToBoolean(ClientContains(image, bands[k]))

\* image.select(b) of every band of needed, then addBands(... .rename(name)):
\* selecting a band the image does not have fails when the image is computed
AddIndexBand(image, needed, name) ==
  IF \A k \in DOMAIN needed : needed[k] \in Range(image.bands)
  THEN [image EXCEPT !.bands = Append(@, name)]
  ELSE EEError

\* ee.Algorithms.If(condition, trueCase, falseCase)
AlgorithmsIf(condition, trueCase, falseCase) ==
  IF condition THEN trueCase ELSE falseCase

addNDRE3(image) ==
  AlgorithmsIf(HasBands(image, <<"B8A", "B7">>),
               AddIndexBand(image, <<"B8A", "B7">>, "NDRE3"),
               image)

addRDI(image) ==
  AlgorithmsIf(HasBands(image, <<"B12", "B8A">>),
               AddIndexBand(image, <<"B12", "B8A">>, "RDI"),
               image)

\* bandNames.contains(band) on the server: a boolean
ServerContains(image, band) ==
  IF band \in Range(image.bands) THEN "true" ELSE "false"

\* list.reduce(ee.Reducer.min()): the least element, false below true; a
\* reducer without inputs gives null
ReduceMin(list) ==
  IF list = <<>> THEN "null"
  ELSE IF "false" \in Range(list) THEN "false" ELSE "true"

\* hasAllRequiredBands(image) of filterCollectionByBands
hasAllRequiredBands(image, requiredBands) ==
  LET hasAllBands ==
        ReduceMin([k \in DOMAIN requiredBands |->
                     ServerContains(image, requiredBands[k])])
  IN [image EXCEPT !.hasAllBands = hasAllBands]

\* collection.filterMetadata(name, 'equals', value): the images whose
\* property equals the value, in the order of the collection
RECURSIVE FilterEquals(_, _)
FilterEquals(collection, value) ==
  IF collection = <<>> THEN <<>>
  ELSE IF Head(collection).image.hasAllBands = value
       THEN <<Head(collection)>> \o FilterEquals(Tail(collection), value)
       ELSE FilterEquals(Tail(collection), value)

\* a collection is its images, each with its index in the collection
filterCollectionByBands(collection, requiredBands) ==
  LET collectionWithBandCheck ==
        [k \in DOMAIN collection |->
           [index |-> collection[k].index,
            image |-> hasAllRequiredBands(collection[k].image, requiredBands)]]
  IN FilterEquals(collectionWithBandCheck, "true")

Collections ==
  UNION {{[k \in 1 .. n |-> [index |-> k, image |-> c[k]]] :
            c \in [1 .. n -> Images]} : n \in 0 .. MaxCollection}

RequiredBandLists ==
  UNION {[1 .. n -> Range(BandPool)] : n \in 0 .. MaxRequired}

NoArgs == [image |-> Image(<<>>), collection |-> <<>>, requiredBands |-> <<>>]

ApplyAddNDRE3 ==
  /\ icall = "none"
  /\ \E im \in Images :
       /\ iarg' = [NoArgs EXCEPT !.image = im]
       /\ iresult' = addNDRE3(im)
  /\ icall' = "addNDRE3"
  /\ UNCHANGED NotIndex

ApplyAddRDI ==
  /\ icall = "none"
  /\ \E im \in Images :
       /\ iarg' = [NoArgs EXCEPT !.image = im]
       /\ iresult' = addRDI(im)
  /\ icall' = "addRDI"
  /\ UNCHANGED NotIndex

ApplyFilterCollectionByBands ==
  /\ icall = "none"
  /\ \E c \in Collections, r \in RequiredBandLists :
       /\ iarg' = [NoArgs EXCEPT !.collection = c, !.requiredBands = r]
       /\ iresult' = filterCollectionByBands(c, r)
  /\ icall' = "filterCollectionByBands"
  /\ UNCHANGED NotIndex

IndexNext == ApplyAddNDRE3 \/ ApplyAddRDI \/ ApplyFilterCollectionByBands

(***************************************************************************)
(* createDateList.  A date is <<year, month, day>>; every date of the      *)
(* model is a midnight, as ee.Date('2019-06-01') is.                       *)
(***************************************************************************)
MaxMonths == 14
MaxExtraDays == 16
MaxInterval == 3

IntervalTypes == {"years", "months", "weeks", "days"}

IsLeap(y) == (y % 4 = 0 /\ y % 100 # 0) \/ y % 400 = 0

DaysInMonth(y, m) ==
  IF m = 2 THEN (IF IsLeap(y) THEN 29 ELSE 28)
  ELSE IF m \in {4, 6, 9, 11} THEN 30 ELSE 31

\* the number of days from 1970-01-01 to the date
DayNumber(date) ==
  LET y == IF date[2] <= 2 THEN date[1] - 1 ELSE date[1]
      era == y \div 400
      yoe == y - era * 400
      mp == IF date[2] > 2 THEN date[2] - 3 ELSE date[2] + 9
      doy == (153 * mp + 2) \div 5 + date[3] - 1
      doe == yoe * 365 + yoe \div 4 - yoe \div 100 + doy
  IN era * 146097 + doe - 719468

\* the date that is z days after 1970-01-01
DateOfDay(z) ==
  LET zz == z + 719468
      era == zz \div 146097
      doe == zz - era * 146097
      yoe == (doe - doe \div 1460 + doe \div 36524 - doe \div 146096) \div 365
      doy == doe - (365 * yoe + yoe \div 4 - yoe \div 100)
      mp == (5 * doy + 2) \div 153
      d == doy - (153 * mp + 2) \div 5 + 1
      m == IF mp < 10 THEN mp + 3 ELSE mp - 9
      y == yoe + era * 400
  IN <<IF m <= 2 THEN y + 1 ELSE y, m, d>>

\* the average length of a unit, in days, as a fraction
UnitDays(unit) ==
  CASE unit = "years" -> <<3652425, 10000>>
    [] unit = "months" -> <<3652425, 120000>>
    [] unit = "weeks" -> <<7, 1>>
    [] unit = "days" -> <<1, 1>>

\* date.difference(start, unit): a fraction, based on the average length of
\* the unit
difference(date, start, unit) ==
  <<(DayNumber(date) - DayNumber(start)) * UnitDays(unit)[2], UnitDays(unit)[1]>>

\* number.round(): the nearest integer
round(q) == (2 * q[1] + q[2]) \div (2 * q[2])

\* a sequence that advances by one whatever the step is
ListSequence_StepOne(first, last, step) ==
  IF last < first THEN <<>>
  ELSE [k \in 1 .. (last - first) + 1 |-> first + (k - 1)]

\* ee.List.sequence(first, last, step)
ListSequence(first, last, step) ==
  IF last < first THEN <<>>
  ELSE [k \in 1 .. (last - first) \div step + 1 |-> first + (k - 1) * step]

\* month arithmetic of the calendar: the day of the month is kept, and cut to
\* the length of the month reached
AdvanceMonths(date, n) ==
  LET total == date[1] * 12 + (date[2] - 1) + n
      y == total \div 12
      m == (total % 12) + 1
  IN <<y, m, IF date[3] > DaysInMonth(y, m) THEN DaysInMonth(y, m) ELSE date[3]>>

AddDays(date, n) == DateOfDay(DayNumber(date) + n)

\* date.advance(n, unit), n an integer
advance(date, n, unit) ==
  CASE unit = "years" -> AdvanceMonths(date, 12 * n)
    [] unit = "months" -> AdvanceMonths(date, n)
    [] unit = "weeks" -> AddDays(date, 7 * n)
    [] unit = "days" -> AddDays(date, n)

createDateList(Date_Start, Date_End, interval, intervalType) ==
  LET n_intervals == round(difference(Date_End, Date_Start, intervalType))
      dates == ListSequence(0, n_intervals, interval)
      make_datelist(n) == advance(Date_Start, n, intervalType)
  IN [k \in DOMAIN dates |-> make_datelist(dates[k])]

StartDates == {<<2019, 6, 1>>, <<2020, 1, 31>>}

\* the end dates: a number of months after the start, and some days more
EndDates(start) ==
  {AddDays(AdvanceMonths(start, q), r) :
     q \in 0 .. MaxMonths, r \in 0 .. MaxExtraDays}

ApplyCreateDateList ==
  /\ icall = "none"
  /\ \E start \in StartDates, interval \in 1 .. MaxInterval,
        intervalType \in IntervalTypes :
       \E end \in EndDates(start) :
         /\ iarg' = [Date_Start |-> start, Date_End |-> end,
                     interval |-> interval, intervalType |-> intervalType]
         /\ iresult' = createDateList(start, end, interval, intervalType)
  /\ icall' = "createDateList"
  /\ UNCHANGED NotIndex

DatesNext == ApplyCreateDateList

(***************************************************************************)
(* The Sentinel-2 index functions.  A pixel value is <<n, d, r>>: the r-th *)
(* root of the fraction n/d (r is 1 or 2), d positive; a masked pixel is   *)
(* <<0, 0, 1>>.  An image is its band names and, band by band, the values  *)
(* of its pixels.                                                          *)
(***************************************************************************)
MaxDRS == 2

Masked == <<0, 0, 1>>

Abs(n) == IF n < 0 THEN 0 - n ELSE n

\* the fraction n/d in lowest terms, d # 0
Q(n, d) ==
  LET g == GCD(Abs(n), Abs(d))
  IN IF d < 0 THEN <<(0 - n) \div g, (0 - d) \div g, 1>>
     ELSE <<n \div g, d \div g, 1>>

IsMasked(a) == a[2] = 0

QAdd(a, b) ==
  IF IsMasked(a) \/ IsMasked(b) THEN Masked
  ELSE Q(a[1] * b[2] + b[1] * a[2], a[2] * b[2])

QSub(a, b) ==
  IF IsMasked(a) \/ IsMasked(b) THEN Masked
  ELSE Q(a[1] * b[2] - b[1] * a[2], a[2] * b[2])

QMul(a, b) ==
  IF IsMasked(a) \/ IsMasked(b) THEN Masked
  ELSE Q(a[1] * b[1], a[2] * b[2])

\* what a division by zero gives: 0 as documented for Image.divide, or a
\* masked pixel
ZeroDivision == {Q(0, 1), Masked}

\* a / b; zero is what a division by zero gives
QDiv(a, b, zero) ==
  IF IsMasked(a) \/ IsMasked(b) THEN Masked
  ELSE IF b[1] = 0 THEN zero
  ELSE Q(a[1] * b[2], a[2] * b[1])

\* sqrt(a), a not negative
QSqrt(a) == IF IsMasked(a) THEN Masked ELSE <<a[1], a[2], 2>>

QLeq(a, b) == a[1] * b[2] <= b[1] * a[2]

QLess(a, b) == a[1] * b[2] < b[1] * a[2]

S2Image(names, px) == [names |-> names, px |-> px, error |-> FALSE]

\* an image whose computation fails
S2Error == [names |-> <<>>, px |-> <<>>, error |-> TRUE]

\* what select gives when the image has no band of the name
NoBand == <<>>

IndexOf(names, name) == CHOOSE k \in DOMAIN names : names[k] = name

\* image.select(name): the pixels of the band
Select(image, name) ==
  IF image.error \/ name \notin Range(image.names) THEN NoBand
  ELSE image.px[IndexOf(image.names, name)]

\* image.addBands(band) with the default overwrite = false: a band whose name
\* the image has already is given a numeric suffix
AddBands(image, name, px) ==
  IF image.error \/ px = NoBand THEN S2Error
  ELSE LET newName == IF name \in Range(image.names) THEN name \o "_1" ELSE name
       IN S2Image(Append(image.names, newName), Append(image.px, px))

\* image.expression(...): result when every image of inputs is a band, and a
\* failure when one of them is not
Expression(inputs, result) ==
  IF NoBand \in Range(inputs) THEN NoBand ELSE result

\* image.normalizedDifference([first, second]): (first - second) /
\* (first + second), masked where an input is negative
normalizedDifference(image, first, second, zero) ==
  LET a == Select(image, first)
      b == Select(image, second)
  IN Expression(<<a, b>>,
       [p \in DOMAIN a |->
          IF IsMasked(a[p]) \/ IsMasked(b[p]) THEN Masked
          ELSE IF a[p][1] < 0 \/ b[p][1] < 0 THEN Masked
          ELSE QDiv(QSub(a[p], b[p]), QAdd(a[p], b[p]), zero)])

addCRE(image, zero) ==
  LET RedEdge1 == Select(image, "B5")
      RedEdge3 == Select(image, "B7")
      CRE == Expression(<<RedEdge1, RedEdge3>>,
               [p \in DOMAIN RedEdge1 |->
                  QSub(QDiv(RedEdge3[p], RedEdge1[p], zero), Q(1, 1))])
  IN AddBands(image, "CRE", CRE)

addDSWI(image, zero) ==
  LET NIR == Select(image, "B8")
      Green == Select(image, "B3")
      Red == Select(image, "B4")
      SWIR == Select(image, "B11")
      DSWI == Expression(<<NIR, Green, Red, SWIR>>,
                [p \in DOMAIN NIR |->
                   QDiv(QAdd(NIR[p], Green[p]), QAdd(Red[p], SWIR[p]), zero)])
  IN AddBands(image, "DSWI", DSWI)

addDRS(image, zero) ==
  LET SWIR == Select(image, "B11")
      RED == Select(image, "B4")
      DRS == Expression(<<SWIR, RED>>,
               [p \in DOMAIN RED |->
                  QSqrt(QAdd(QMul(RED[p], RED[p]), QMul(SWIR[p], SWIR[p])))])
  IN AddBands(image, "DRS", DRS)

\* 2.5 * ((NIR - RED) / (NIR + 6 * RED - 7.5 * BLUE + 1))
EVIExpression(image, zero) ==
  LET NIR == Select(image, "B8")
      RED == Select(image, "B4")
      BLUE == Select(image, "B2")
  IN Expression(<<NIR, RED, BLUE>>,
       [p \in DOMAIN NIR |->
          QMul(Q(5, 2),
               QDiv(QSub(NIR[p], RED[p]),
                    QAdd(QSub(QAdd(NIR[p], QMul(Q(6, 1), RED[p])),
                              QMul(Q(15, 2), BLUE[p])),
                         Q(1, 1)),
                    zero))])

addEVI(image, zero) == AddBands(image, "EVI", EVIExpression(image, zero))

addGNDVI(image, zero) ==
  AddBands(image, "GNDVI", normalizedDifference(image, "B8", "B3", zero))

addLAI(image, zero) ==
  LET EVI == EVIExpression(image, zero)
      LAI == Expression(<<EVI>>,
               [p \in DOMAIN EVI |->
                  QSub(QMul(Q(3618, 1000), EVI[p]), Q(118, 1000))])
  IN AddBands(image, "LAI", LAI)

addNBR(image, zero) ==
  LET NIR == Select(image, "B8")
      SWIR2 == Select(image, "B12")
      NBR == Expression(<<NIR, SWIR2>>,
               [p \in DOMAIN NIR |->
                  QDiv(QSub(NIR[p], SWIR2[p]), QAdd(NIR[p], SWIR2[p]), zero)])
  IN AddBands(image, "NBR", NBR)

addNDRE1(image, zero) ==
  LET RedEdge2 == Select(image, "B6")
      RedEdge1 == Select(image, "B5")
      NDRE1 == Expression(<<RedEdge2, RedEdge1>>,
                 [p \in DOMAIN RedEdge2 |->
                    QDiv(QSub(RedEdge2[p], RedEdge1[p]),
                         QAdd(RedEdge2[p], RedEdge1[p]), zero)])
  IN AddBands(image, "NDRE1", NDRE1)

addNDRE2(image, zero) ==
  LET RedEdge3 == Select(image, "B7")
      RedEdge1 == Select(image, "B5")
      NDRE2 == Expression(<<RedEdge3, RedEdge1>>,
                 [p \in DOMAIN RedEdge3 |->
                    QDiv(QSub(RedEdge3[p], RedEdge1[p]),
                         QAdd(RedEdge3[p], RedEdge1[p]), zero)])
  IN AddBands(image, "NDRE2", NDRE2)

addNDVI(image, zero) ==
  AddBands(image, "NDVI", normalizedDifference(image, "B8", "B4", zero))

\* the normalized difference of B8 and B3, in that order
addNDWI_NirFirst(image, zero) ==
  LET NIR == Select(image, "B8")
      Green == Select(image, "B3")
      NDWI == Expression(<<NIR, Green>>,
                [p \in DOMAIN NIR |->
                   QDiv(QSub(NIR[p], Green[p]), QAdd(NIR[p], Green[p]), zero)])
  IN AddBands(image, "NDWI", NDWI)

addNDWI(image, zero) ==
  LET NIR == Select(image, "B8")
      Green == Select(image, "B3")
      NDWI == Expression(<<NIR, Green>>,
                [p \in DOMAIN NIR |->
                   QDiv(QSub(Green[p], NIR[p]), QAdd(Green[p], NIR[p]), zero)])
  IN AddBands(image, "NDWI", NDWI)

(***************************************************************************)
(* addNDRS.  landcoverImage is the forest_lc_class band of the land cover  *)
(* image of the year of the image: a class code for each pixel, or no      *)
(* image at all.                                                           *)
(***************************************************************************)
JsArray(elements) == [t |-> "array", v |-> elements]

NoArray == [t |-> "undefined", v |-> <<>>]

\* array[k] of client code, counted from 0; -1 stands for undefined
At(array, k) == IF k + 1 \in DOMAIN array THEN array[k + 1] ELSE -1

\* landcoverImage.remap(forestTypes, ee.List.repeat(1, n), 0)
Remap(landcoverImage, codes) ==
  [p \in DOMAIN landcoverImage |->
     IF landcoverImage[p] \in Range(codes) THEN 1 ELSE 0]

\* DRS.updateMask(forestMask)
UpdateMask(band, mask) ==
  [p \in DOMAIN band |-> IF mask[p] = 0 THEN Masked ELSE band[p]]

Unmasked(band) == {band[p] : p \in {x \in DOMAIN band : ~IsMasked(band[x])}}

\* reduceRegion with ee.Reducer.minMax(): null for both when no pixel is
\* unmasked
ReduceMinMax(band) ==
  IF Unmasked(band) = {} THEN NULL
  ELSE <<CHOOSE lo \in Unmasked(band) : \A x \in Unmasked(band) : QLeq(lo, x),
         CHOOSE hi \in Unmasked(band) : \A x \in Unmasked(band) : QLeq(x, hi)>>

\* a band that is not clamped
Clamp_None(band, lo, hi) == band

\* DRS.clamp(DRSmin, DRSmax)
Clamp(band, lo, hi) ==
  [p \in DOMAIN band |->
     IF IsMasked(band[p]) THEN Masked
     ELSE IF QLess(band[p], lo) THEN lo
     ELSE IF QLess(hi, band[p]) THEN hi
     ELSE band[p]]

\* the suffix of the first code, whatever the number of codes
Suffix_OfFirstCode(forestTypes) ==
  AlgorithmsIf(At(forestTypes, 0) = 210, "_coni",
    AlgorithmsIf(At(forestTypes, 0) = 220, "_deci", "_mixed"))

Suffix(forestTypes) ==
  AlgorithmsIf(Len(forestTypes) = 1,
    AlgorithmsIf(At(forestTypes, 0) = 210, "_coni",
      AlgorithmsIf(At(forestTypes, 0) = 220, "_deci", "_mixed")),
    "_mixed")

\* ee.String(bandName).replace(pattern, replacement); no band name of the
\* model has the pattern as a proper part
Replace(bandName, pattern, replacement) ==
  IF bandName = pattern THEN replacement ELSE bandName

addNDRS(image, forestTypesArg, landcoverImage, zero) ==
  LET forestTypes == IF ToBoolean(forestTypesArg) THEN forestTypesArg.v
                     ELSE <<210, 220, 230>>
      DRS == Select(image, "DRS")
  IN IF landcoverImage = NULL \/ DRS = NoBand THEN S2Error
     ELSE LET forestMask == Remap(landcoverImage, forestTypes)
              maskedDRS == UpdateMask(DRS, forestMask)
              minMax == ReduceMinMax(maskedDRS)
          IN IF minMax = NULL THEN S2Error
             ELSE LET DRSmin == minMax[1]
                      DRSmax == minMax[2]
                      adjustedDRS == Clamp(DRS, DRSmin, DRSmax)
                      NDRS == [p \in DOMAIN adjustedDRS |->
                                 QDiv(QSub(adjustedDRS[p], DRSmin),
                                      QSub(DRSmax, DRSmin), zero)]
                      suffixed == "NDRS" \o Suffix(forestTypes)
                      renamed == Replace(suffixed, "NDRS_coni_deci_mixed",
                                         "NDRS_mixed")
                  IN AddBands(image, renamed, NDRS)

(***************************************************************************)
(* The images and the calls.                                               *)
(***************************************************************************)
S2Bands == <<"B2", "B3", "B4", "B5", "B6", "B7", "B8", "B11", "B12">>

\* the values of the bands of S2Bands at a pixel: all different, all zero,
\* some negative
Profiles ==
  {[k \in DOMAIN S2Bands |-> k], [k \in DOMAIN S2Bands |-> 0],
   [k \in DOMAIN S2Bands |-> k - 3]}

\* an image of two pixels with all the bands of S2Bands
FullImage(first, second) ==
  S2Image(S2Bands,
          [k \in DOMAIN S2Bands |-> <<Q(first[k], 1), Q(second[k], 1)>>])

\* the image without its j-th band; the image itself when j is 0
WithoutBand(image, j) ==
  IF j = 0 THEN image
  ELSE S2Image([k \in 1 .. Len(image.names) - 1 |->
                  image.names[IF k < j THEN k ELSE k + 1]],
               [k \in 1 .. Len(image.names) - 1 |->
                  image.px[IF k < j THEN k ELSE k + 1]])

\* the image with one more band of the name; the image itself for ""
WithBand(image, name) ==
  IF name = "" THEN image
  ELSE S2Image(Append(image.names, name),
               Append(image.px, [p \in DOMAIN image.px[1] |-> Q(9, 1)]))

\* the images an index function is called with: all the bands or all but
\* one, and maybe a band of the name the function gives to its band
S2Images(name) ==
  {WithBand(WithoutBand(FullImage(first, second), j), extra) :
     first \in Profiles, second \in Profiles, j \in 0 .. Len(S2Bands),
     extra \in {"", name}}

S2NoArgs ==
  [image |-> S2Error, forestTypes |-> NoArray, landcover |-> NULL,
   zero |-> Masked]

ApplyAddCRE ==
  /\ icall = "none"
  /\ \E image \in S2Images("CRE"), zero \in ZeroDivision :
       /\ iarg' = [S2NoArgs EXCEPT !.image = image, !.zero = zero]
       /\ iresult' = addCRE(image, zero)
  /\ icall' = "addCRE"
  /\ UNCHANGED NotIndex

ApplyAddDSWI ==
  /\ icall = "none"
  /\ \E image \in S2Images("DSWI"), zero \in ZeroDivision :
       /\ iarg' = [S2NoArgs EXCEPT !.image = image, !.zero = zero]
       /\ iresult' = addDSWI(image, zero)
  /\ icall' = "addDSWI"
  /\ UNCHANGED NotIndex

ApplyAddDRS ==
  /\ icall = "none"
  /\ \E image \in S2Images("DRS"), zero \in ZeroDivision :
       /\ iarg' = [S2NoArgs EXCEPT !.image = image, !.zero = zero]
       /\ iresult' = addDRS(image, zero)
  /\ icall' = "addDRS"
  /\ UNCHANGED NotIndex

ApplyAddEVI ==
  /\ icall = "none"
  /\ \E image \in S2Images("EVI"), zero \in ZeroDivision :
       /\ iarg' = [S2NoArgs EXCEPT !.image = image, !.zero = zero]
       /\ iresult' = addEVI(image, zero)
  /\ icall' = "addEVI"
  /\ UNCHANGED NotIndex

ApplyAddGNDVI ==
  /\ icall = "none"
  /\ \E image \in S2Images("GNDVI"), zero \in ZeroDivision :
       /\ iarg' = [S2NoArgs EXCEPT !.image = image, !.zero = zero]
       /\ iresult' = addGNDVI(image, zero)
  /\ icall' = "addGNDVI"
  /\ UNCHANGED NotIndex

ApplyAddLAI ==
  /\ icall = "none"
  /\ \E image \in S2Images("LAI"), zero \in ZeroDivision :
       /\ iarg' = [S2NoArgs EXCEPT !.image = image, !.zero = zero]
       /\ iresult' = addLAI(image, zero)
  /\ icall' = "addLAI"
  /\ UNCHANGED NotIndex

ApplyAddNBR ==
  /\ icall = "none"
  /\ \E image \in S2Images("NBR"), zero \in ZeroDivision :
       /\ iarg' = [S2NoArgs EXCEPT !.image = image, !.zero = zero]
       /\ iresult' = addNBR(image, zero)
  /\ icall' = "addNBR"
  /\ UNCHANGED NotIndex

ApplyAddNDRE1 ==
  /\ icall = "none"
  /\ \E image \in S2Images("NDRE1"), zero \in ZeroDivision :
       /\ iarg' = [S2NoArgs EXCEPT !.image = image, !.zero = zero]
       /\ iresult' = addNDRE1(image, zero)
  /\ icall' = "addNDRE1"
  /\ UNCHANGED NotIndex

ApplyAddNDRE2 ==
  /\ icall = "none"
  /\ \E image \in S2Images("NDRE2"), zero \in ZeroDivision :
       /\ iarg' = [S2NoArgs EXCEPT !.image = image, !.zero = zero]
       /\ iresult' = addNDRE2(image, zero)
  /\ icall' = "addNDRE2"
  /\ UNCHANGED NotIndex

ApplyAddNDVI ==
  /\ icall = "none"
  /\ \E image \in S2Images("NDVI"), zero \in ZeroDivision :
       /\ iarg' = [S2NoArgs EXCEPT !.image = image, !.zero = zero]
       /\ iresult' = addNDVI(image, zero)
  /\ icall' = "addNDVI"
  /\ UNCHANGED NotIndex

ApplyAddNDWI ==
  /\ icall = "none"
  /\ \E image \in S2Images("NDWI"), zero \in ZeroDivision :
       /\ iarg' = [S2NoArgs EXCEPT !.image = image, !.zero = zero]
       /\ iresult' = addNDWI(image, zero)
  /\ icall' = "addNDWI"
  /\ UNCHANGED NotIndex

\* the values of the DRS band at a pixel
DRSValues == {Masked} \cup {Q(n, 1) : n \in 0 .. MaxDRS}

\* images of three pixels: with a DRS band, with a band before it, with an
\* NDRS band of an earlier call, and without a DRS band
NDRSImages ==
  UNION {{S2Image(<<"DRS">>, <<drs>>),
          S2Image(<<"B4", "DRS">>, <<<<Q(1, 1), Q(2, 1), Q(3, 1)>>, drs>>),
          S2Image(<<"DRS", "NDRS_coni">>, <<drs, <<Q(0, 1), Q(1, 1), Q(1, 2)>>>>),
          S2Image(<<"B4">>, <<drs>>)} :
           drs \in [1 .. 3 -> DRSValues]}

ForestTypeArgs ==
  {NoArray, JsArray(<<>>), JsArray(<<210>>), JsArray(<<220>>),
   JsArray(<<230>>), JsArray(<<210, 220>>), JsArray(<<220, 210>>),
   JsArray(<<210, 220, 230>>)}

\* land cover images of three pixels; 0 is a class that is no forest
LandcoverImages ==
  {NULL, <<210, 220, 230>>, <<210, 210, 0>>, <<220, 0, 230>>, <<0, 0, 0>>}

ApplyAddNDRS ==
  /\ icall = "none"
  /\ \E image \in NDRSImages, forestTypes \in ForestTypeArgs,
        landcoverImage \in LandcoverImages, zero \in ZeroDivision :
       /\ iarg' = [image |-> image, forestTypes |-> forestTypes,
                   landcover |-> landcoverImage, zero |-> zero]
       /\ iresult' = addNDRS(image, forestTypes, landcoverImage, zero)
  /\ icall' = "addNDRS"
  /\ UNCHANGED NotIndex

SentinelNext ==
  \/ ApplyAddCRE \/ ApplyAddDSWI \/ ApplyAddDRS \/ ApplyAddEVI
  \/ ApplyAddGNDVI \/ ApplyAddLAI \/ ApplyAddNBR \/ ApplyAddNDRE1
  \/ ApplyAddNDRE2 \/ ApplyAddNDVI \/ ApplyAddNDWI \/ ApplyAddNDRS

(***************************************************************************)
(* The terrain metrics script.  The script runs to its end before any      *)
(* callback of evaluate runs; the callbacks then run one at a time, in the *)
(* order the answers of the server arrive.                                 *)
(***************************************************************************)
\* the bands of terrain: dem, then slope, northness and aspect
TerrainBands == <<"elevation", "slope", "northness", "aspect">>

\* what stats.evaluate hands to its callback: the dictionary, or undefined
\* when the computation failed
StatsResults == {"minMax", "undefined"}

TerrainInit ==
  /\ tpc = "start"
  /\ pending = {}
  /\ console = <<>>
  /\ exports = <<>>

\* a callback that runs as soon as it is registered
CallbackMayRun_AtOnce(position) == TRUE

\* a callback runs only when the script itself has run to its end
CallbackMayRun(position) == position = "finished"

\* print("Terrain Metrics", terrain) ... terrain.bandNames().evaluate(...)
ScriptRequestBandNames ==
  /\ tpc = "start"
  /\ console' = Append(console, [band |-> "", label |-> "Terrain Metrics",
                                 result |-> "terrain"])
  /\ pending' = pending \cup {"bandNames"}
  /\ tpc' = "requested"
  /\ UNCHANGED exports
  /\ UNCHANGED NotTerrain

\* Export.image.toDrive({image: terrain, ...}), the last statement
ScriptExport ==
  /\ tpc = "requested"
  /\ exports' = Append(exports, [image |-> "terrain",
                                 description |-> "terrain_metrics_export",
                                 folder |-> "terrain_exports",
                                 fileNamePrefix |-> "terrain_metrics"])
  /\ tpc' = "finished"
  /\ UNCHANGED <<pending, console>>
  /\ UNCHANGED NotTerrain

\* function(bands) { bands.forEach(... stats.evaluate(...)) }
BandNamesCallback ==
  /\ CallbackMayRun(tpc)
  /\ "bandNames" \in pending
  /\ pending' = (pending \ {"bandNames"}) \cup Range(TerrainBands)
  /\ UNCHANGED <<tpc, console, exports>>
  /\ UNCHANGED NotTerrain

\* function(result) { print(band + ' Min and Max:', result); }
StatsCallback ==
  /\ CallbackMayRun(tpc)
  /\ \E band \in pending \cap Range(TerrainBands), result \in StatsResults :
       /\ console' = Append(console, [band |-> band, label |-> "Min and Max:",
                                      result |-> result])
       /\ pending' = pending \ {band}
  /\ UNCHANGED <<tpc, exports>>
  /\ UNCHANGED NotTerrain

TerrainNext ==
  \/ ScriptRequestBandNames \/ ScriptExport
  \/ BandNamesCallback \/ StatsCallback

(***************************************************************************)
(* The specifications: one per group of functions; the state of the other  *)
(* groups stays as it is initially.                                        *)
(***************************************************************************)
MosaicIdle == MosaicInit /\ export_file = NULL

IndexInit ==
  /\ icall = "none"
  /\ iarg = NoArgs
  /\ iresult = <<>>

InitMosaic == MosaicInit /\ ExportInit /\ IndexInit /\ TerrainInit

SpecMosaic == InitMosaic /\ [][MosaicNext]_vars

InitExport == MosaicIdle /\ ExportInit /\ IndexInit /\ TerrainInit

SpecExport == InitExport /\ [][ExportNext]_vars

InitIndex == MosaicIdle /\ ExportInit /\ IndexInit /\ TerrainInit

SpecIndex == InitIndex /\ [][IndexNext]_vars

InitDates == MosaicIdle /\ ExportInit /\ IndexInit /\ TerrainInit
SpecDates == InitDates /\ [][DatesNext]_vars

InitSentinel == MosaicIdle /\ ExportInit /\ IndexInit /\ TerrainInit
SpecSentinel == InitSentinel /\ [][SentinelNext]_vars

InitTerrain == MosaicIdle /\ ExportInit /\ IndexInit /\ TerrainInit

\* every step of the script is taken, and every answer of the server arrives
\* and has its callback run
SpecTerrain ==
  /\ InitTerrain
  /\ [][TerrainNext]_vars
  /\ WF_vars(ScriptRequestBandNames)
  /\ WF_vars(ScriptExport)
  /\ WF_vars(BandNamesCallback)
  /\ WF_vars(StatsCallback)

(***************************************************************************)
(* Properties of the mosaic functions.                                     *)
(***************************************************************************)
Count(seq, x) == Cardinality({k \in DOMAIN seq : seq[k] = x})

CeilDiv(n, b) == (n + b - 1) \div b

RECURSIVE ConcatFiles(_)
ConcatFiles(bs) ==
  IF bs = <<>> THEN <<>> ELSE Head(bs).files \o ConcatFiles(Tail(bs))

\* C1: the mosaic returned by mosaic_rasters_in_batches is, at every pixel,
\* fun over all the input rasters covering it: the mosaic that
\* mosaic_rasters_in_list computes for the same files and fun.
C1_BatchesEqualList ==
  (fn = "batches" /\ pc = "done") => ret = Mosaic(sprc(raster_files), fun)

\* C2: the batch loop runs exactly ceil(n / batch_size) times and then ends;
\* the batches are consecutive slices of raster_files in input order, each of
\* 1 .. batch_size files, all but the last of exactly batch_size files, and
\* together they hold every input file exactly once.
C2_BatchLoop ==
  fn = "batches" =>
    LET n == Len(raster_files)
        total == CeilDiv(n, batch_size)
    IN /\ loop_k <= total
       /\ Len(batches) <= total
       /\ pc = "load" => loop_k < total /\ Len(batches) = loop_k
       /\ pc \in {"write", "done"} =>
            /\ loop_k = total
            /\ Len(batches) = total
            /\ ConcatFiles(batches) = raster_files
       /\ \A k \in DOMAIN batches :
            LET b == batches[k]
                len == Len(b.files)
            IN /\ b.lo = (k - 1) * batch_size + 1
               /\ b.files = SubSeq(raster_files, b.lo, b.lo + len - 1)
               /\ 1 <= len /\ len <= batch_size
               /\ k < total => len = batch_size
               /\ k = total => b.lo + len - 1 = n

C2_Witness ==
  /\ fn = "batches" /\ pc = "done"
  /\ Len(batches) = 2
  /\ Len(batches[2].files) < batch_size

\* C6: called with no input rasters, each mosaic function stops with its
\* error message before any raster collection is created, any mosaic is
\* computed or export_filename is written.
EndsInDotTif(name) ==
  \E k \in 0 .. Len(name) :
    name = SubSeq(name, 1, k) \o <<".", "t", "i", "f">>

NoInput ==
  \/ fn \in {"list", "batches"} /\ raster_files = <<>>
  \/ fn = "directory" /\ \A f \in dir_contents : ~EndsInDotTif(FilePool[f].name)

C6_NoInputStops ==
  NoInput =>
    /\ pc \in {"check", "stopped"}
    /\ log = <<>>
    /\ export_file = old_export
    /\ rsrc = NULL /\ final_mosaic = NULL /\ ret = NULL
    /\ pc = "check" => err = ""
    /\ pc = "stopped" =>
         err = IF fn = "directory"
               THEN "No .tif files found in the specified directory."
               ELSE "No raster files provided for mosaicking."

C6_Witness ==
  /\ fn = "directory" /\ pc = "stopped"
  /\ dir_contents # {}
  /\ err = "No .tif files found in the specified directory."

\* C7: a successful call writes export_filename exactly once, after all the
\* mosaicking (in mosaic_rasters_in_batches after the last batch), replaces
\* an existing file and returns the mosaic it wrote.
C7_WriteOnceAtEnd ==
  /\ pc = "done" =>
       /\ Count(log, "writeRaster") = 1
       /\ log[Len(log)] = "writeRaster"
       /\ Count(log, "mosaic") >= 1
       /\ ret # NULL /\ ret = final_mosaic
       /\ export_file = ret
       /\ fn = "batches" =>
            Count(log, "sprc") = CeilDiv(Len(raster_files), batch_size)
  /\ pc # "done" =>
       /\ Count(log, "writeRaster") = 0
       /\ export_file = old_export
       /\ ret = NULL

C7_Witness ==
  /\ fn = "batches" /\ pc = "done"
  /\ Len(batches) >= 2
  /\ old_export = OldRaster
  /\ export_file # old_export

\* C8: in every iteration of the batch loop, after the merge and before the
\* next batch is loaded, the batch collection and the batch mosaic are
\* released and terra::tmpFiles is called exactly once; a raster collection
\* never holds more than one batch of at most batch_size rasters.
C8_CleanupEachBatch ==
  fn = "batches" =>
    /\ Len(rsrc) <= batch_size
    /\ Count(log, "tmpFiles") = loop_k
    /\ Count(log, "sprc") - Count(log, "tmpFiles") \in {0, 1}
    /\ pc \in {"load", "write", "done"} =>
         /\ rsrc = NULL /\ batch_mosaic = NULL
         /\ Count(log, "sprc") = Count(log, "tmpFiles")
    /\ pc = "cleanup" => final_mosaic # NULL /\ Count(log, "sprc") = loop_k + 1
    /\ \A j \in DOMAIN log :
         /\ log[j] = "tmpFiles" => j > 1 /\ log[j - 1] \in {"mosaic", "merge"}
         /\ log[j] = "sprc" => j = 1 \/ log[j - 1] = "tmpFiles"

C8_Witness ==
  /\ fn = "batches" /\ pc = "load"
  /\ loop_k = 1
  /\ Len(batches[1].files) = batch_size /\ batch_size >= 2

(***************************************************************************)
(* Properties of the export functions.                                     *)
(***************************************************************************)
IsFileName(x) == x.t = "string" /\ x.v # ""

\* the item is exported without any error
Succeeds(o) == o.kind = "return" /\ IsFileName(o.val) /\ o.fail = "none"

\* the message of the error the item raises in exportImageCollection
ErrorOf(o) ==
  IF o.kind = "throw" THEN "fileNameFn failed"
  ELSE IF ~IsFileName(o.val) THEN "Invalid file name generated."
  ELSE IF o.fail = "clip" THEN "clip failed" ELSE "export failed"

TasksOf(j) == {k \in DOMAIN tasks : tasks[k].image = j}
PrintsOf(j) == {k \in DOMAIN printed : printed[k].image = j}

\* C3: an error raised while exportImageCollection processes image j is caught
\* and printed, never leaves the function and never stops the loop: every
\* later image is still processed.
C3_ErrorsCaught ==
  xfn = "exportImageCollection" =>
    /\ xpc # "raised"
    /\ i <= size
    /\ xpc = "loop" <=> i < size
    /\ \A j \in 0 .. size - 1 :
         IF j >= i
         THEN TasksOf(j) = {} /\ PrintsOf(j) = {}
         ELSE IF Succeeds(outcomes[j + 1])
         THEN Cardinality(TasksOf(j)) = 1 /\ PrintsOf(j) = {}
         ELSE /\ TasksOf(j) = {}
              /\ Cardinality(PrintsOf(j)) = 1
              /\ \A k \in PrintsOf(j) :
                   /\ printed[k].text = "Error processing image:"
                   /\ printed[k].message = ErrorOf(outcomes[j + 1])

C3_Witness ==
  /\ xfn = "exportImageCollection" /\ xpc = "done" /\ size = 3
  /\ outcomes[1].kind = "throw"
  /\ outcomes[2].fail = "export"
  /\ Succeeds(outcomes[3])
  /\ Len(printed) = 2 /\ Len(tasks) = 1 /\ tasks[1].image = 2

\* C4: when no error occurs, exportImageCollection submits exactly one task
\* per image, in index order 0 .. size-1, with description and fileNamePrefix
\* both fileNameFn(img) and the image clipped to aoi; the loop makes exactly
\* size passes, and an empty collection gives no task and no printed error.
C4_OneTaskPerImage ==
  (xfn = "exportImageCollection"
     /\ \A j \in 1 .. size : Succeeds(outcomes[j])) =>
    /\ printed = <<>>
    /\ Len(tasks) = i
    /\ xpc = "done" => i = size
    /\ \A k \in DOMAIN tasks :
         /\ tasks[k].image = k - 1
         /\ tasks[k].band = "all"
         /\ tasks[k].clip = "aoi"
         /\ tasks[k].description = outcomes[k].val
         /\ tasks[k].fileNamePrefix = outcomes[k].val

C4_Witness ==
  /\ xfn = "exportImageCollection" /\ xpc = "done" /\ size = 3
  /\ Len(tasks) = 3 /\ printed = <<>>
  /\ tasks[1].description # tasks[2].description

\* C5: no export task of exportImageCollection or exportBandsByYear has a
\* description or fileNamePrefix that is empty, null, undefined or not a
\* string: the name submitted is the one fileNameFn returned for the item and
\* passed the validation, and an item whose name fails it gets no task.
NameOf(t) ==
  IF xfn = "exportImageCollection" THEN outcomes[t.image + 1]
  ELSE LET k == CHOOSE k \in DOMAIN BandNames : BandNames[k] = t.band
       IN outcomes[t.image + 1][k]

C5_OnlyValidNames ==
  \A n \in DOMAIN tasks :
    LET t == tasks[n]
    IN /\ IsFileName(t.description)
       /\ IsFileName(t.fileNamePrefix)
       /\ t.description = t.fileNamePrefix
       /\ NameOf(t).kind = "return"
       /\ NameOf(t).val = t.description

C5_Witness ==
  /\ xfn = "exportBandsByYear" /\ xpc = "done" /\ size = 1
  /\ Len(outcomes[1]) = 2
  /\ Succeeds(outcomes[1][1])
  /\ outcomes[1][2] = Returns(Num("7"), "none")
  /\ Len(tasks) = 1 /\ tasks[1].band = "B4"
  /\ Len(printed) = 1 /\ printed[1].message = "Invalid file name generated."

(***************************************************************************)
(* Properties of the band functions.                                       *)
(***************************************************************************)
Required(call) == IF call = "addNDRE3" THEN {"B8A", "B7"} ELSE {"B12", "B8A"}
IndexName(call) == IF call = "addNDRE3" THEN "NDRE3" ELSE "RDI"

\* C9: addNDRE3 and addRDI return the image unchanged, with no band added,
\* when it lacks a required band, and add the index band only when both
\* required bands are present.
C9_MissingBandsReturnImage ==
  icall \in {"addNDRE3", "addRDI"} =>
    IF Required(icall) \subseteq Range(iarg.image.bands)
    THEN iresult = [iarg.image EXCEPT !.bands = Append(@, IndexName(icall))]
    ELSE iresult = iarg.image

\* C10: filterCollectionByBands returns exactly the images that have every
\* band of requiredBands, in the order they have in the collection.
RECURSIVE Keep(_, _)
Keep(collection, wanted) ==
  IF collection = <<>> THEN <<>>
  ELSE IF wanted \subseteq Range(Head(collection).image.bands)
       THEN <<Head(collection).index>> \o Keep(Tail(collection), wanted)
       ELSE Keep(Tail(collection), wanted)

C10_ExactlyImagesWithAllBands ==
  icall = "filterCollectionByBands" =>
    [k \in DOMAIN iresult |-> iresult[k].index]
      = Keep(iarg.collection, Range(iarg.requiredBands))

(***************************************************************************)
(* Error handling of exportBandsByYear.                                    *)
(***************************************************************************)
\* the first band of the image whose export raises an error, or one more
\* than the number of bands when none does
FirstBad(outs) ==
  IF \E k \in DOMAIN outs : ~Succeeds(outs[k])
  THEN CHOOSE k \in DOMAIN outs :
         ~Succeeds(outs[k]) /\ \A m \in 1 .. k - 1 : Succeeds(outs[m])
  ELSE Len(outs) + 1

TaskSeqOf(j) == SelectSeq(tasks, LAMBDA t : t.image = j)

\* C16: when band k of image j raises an error in exportBandsByYear, the
\* tasks of the bands before k stay submitted, band k and the later bands of
\* the image get no task, the error is printed once, and the loop goes on
\* with image j+1.
C16_BandErrorSkipsRestOfImage ==
  xfn = "exportBandsByYear" =>
    /\ i <= size
    /\ xpc = "loop" <=> i < size
    /\ \A j \in 0 .. size - 1 :
         LET outs == outcomes[j + 1]
             bad == FirstBad(outs)
         IN IF j >= i
            THEN TaskSeqOf(j) = <<>> /\ PrintsOf(j) = {}
            ELSE /\ Len(TaskSeqOf(j)) = bad - 1
                 /\ \A k \in 1 .. bad - 1 :
                      /\ TaskSeqOf(j)[k].band = BandNames[k]
                      /\ TaskSeqOf(j)[k].description = outs[k].val
                 /\ Cardinality(PrintsOf(j)) = IF bad <= Len(outs) THEN 1 ELSE 0

C16_Witness ==
  /\ xfn = "exportBandsByYear" /\ xpc = "done" /\ size = 2
  /\ Len(outcomes[1]) = 2 /\ Len(outcomes[2]) = 2
  /\ ~Succeeds(outcomes[1][1]) /\ Succeeds(outcomes[1][2])
  /\ FirstBad(outcomes[2]) = 3
  /\ Len(printed) = 1 /\ Len(tasks) = 2
  /\ tasks[1].image = 1 /\ tasks[2].image = 1

(***************************************************************************)
(* Properties of the terrain metrics script.                               *)
(***************************************************************************)
LinesOf(band) ==
  {k \in DOMAIN console :
     console[k].label = "Min and Max:" /\ console[k].band = band}

MinMaxBands ==
  SelectSeq(console, LAMBDA line : line.label = "Min and Max:")

\* C17: the export task is submitted exactly once and before any band's
\* 'Min and Max' line is printed, whatever the callbacks do; under every
\* interleaving of the callbacks exactly one 'Min and Max' line is eventually
\* printed for every band of terrain, in an order that need not be the band
\* order.
C17_ExportFirstThenEveryBand ==
  /\ [](/\ Len(exports) <= 1
        /\ \A band \in Range(TerrainBands) : Cardinality(LinesOf(band)) <= 1
        /\ MinMaxBands # <<>> => Len(exports) = 1)
  /\ <>[](/\ Len(exports) = 1
          /\ Len(MinMaxBands) = Len(TerrainBands)
          /\ \A band \in Range(TerrainBands) : Cardinality(LinesOf(band)) = 1)

C17_Witness ==
  /\ Len(exports) = 1
  /\ Len(MinMaxBands) = Len(TerrainBands)
  /\ MinMaxBands[1].band = "aspect"
  /\ MinMaxBands[Len(TerrainBands)].band = "elevation"

(***************************************************************************)
(* Properties of createDateList.                                           *)
(***************************************************************************)
DateLeq(a, b) == DayNumber(a) <= DayNumber(b)

\* Date_End is Date_Start advanced by a whole multiple of the interval
WholeRange(a) ==
  \E q \in 0 .. DayNumber(a.Date_End) - DayNumber(a.Date_Start) :
    a.Date_End = advance(a.Date_Start, q * a.interval, a.intervalType)

C12_DatesWithinRange ==
  icall = "createDateList" =>
    \A k \in DOMAIN iresult :
      /\ DateLeq(iarg.Date_Start, iresult[k])
      /\ DateLeq(iresult[k], iarg.Date_End)

(***************************************************************************)
(* Properties of addNDRS.                                                  *)
(***************************************************************************)
\* the name the documentation gives to the band, by the forest types asked
NDRSName(forestTypes) ==
  IF forestTypes = JsArray(<<210>>) THEN "NDRS_coni"
  ELSE IF forestTypes = JsArray(<<220>>) THEN "NDRS_deci"
  ELSE "NDRS_mixed"

CodesOf(a) ==
  IF a.forestTypes = NoArray THEN {210, 220, 230} ELSE Range(a.forestTypes.v)

\* the pixels of the selected forest types that have a DRS value
ForestPixels(a) ==
  {p \in DOMAIN a.landcover :
     a.landcover[p] \in CodesOf(a) /\ ~IsMasked(Select(a.image, "DRS")[p])}

IsDRSmin(a, lo) ==
  /\ \E p \in ForestPixels(a) : Select(a.image, "DRS")[p] = lo
  /\ \A p \in ForestPixels(a) : QLeq(lo, Select(a.image, "DRS")[p])

IsDRSmax(a, hi) ==
  /\ \E p \in ForestPixels(a) : Select(a.image, "DRS")[p] = hi
  /\ \A p \in ForestPixels(a) : QLeq(Select(a.image, "DRS")[p], hi)

\* the band the call has added
AddedBand == iresult.px[Len(iresult.px)]

\* C14 as stated: every unmasked pixel of the NDRS band lies in [0, 1], is 0
\* where DRS <= DRSmin and is 1 where DRS >= DRSmax, DRSmax = DRSmin
\* included.
C14_NormalizedAlsoWhenMinIsMax ==
  (icall = "addNDRS" /\ ~iresult.error) =>
    \A lo \in DRSValues, hi \in DRSValues :
      (IsDRSmin(iarg, lo) /\ IsDRSmax(iarg, hi)) =>
        \A p \in DOMAIN AddedBand :
          ~IsMasked(AddedBand[p]) =>
            /\ QLeq(Q(0, 1), AddedBand[p]) /\ QLeq(AddedBand[p], Q(1, 1))
            /\ QLeq(Select(iarg.image, "DRS")[p], lo) => AddedBand[p] = Q(0, 1)
            /\ QLeq(hi, Select(iarg.image, "DRS")[p]) => AddedBand[p] = Q(1, 1)

\* C14, amended: a pixel of the NDRS band is masked where DRS is masked;
\* where DRS is not masked and DRSmax > DRSmin it is unmasked, lies in
\* [0, 1], is 0 where DRS <= DRSmin and 1 where DRS >= DRSmax; where
\* DRSmax = DRSmin it is what the division by zero gives: 0, or a masked
\* pixel, and never 1.
C14_NormalizedWhenMinBelowMax ==
  (icall = "addNDRS" /\ ~iresult.error) =>
    \A lo \in DRSValues, hi \in DRSValues :
      (IsDRSmin(iarg, lo) /\ IsDRSmax(iarg, hi)) =>
        \A p \in DOMAIN AddedBand :
          IF IsMasked(Select(iarg.image, "DRS")[p]) THEN IsMasked(AddedBand[p])
          ELSE IF lo = hi THEN AddedBand[p] = Q(0, 1) \/ IsMasked(AddedBand[p])
          ELSE /\ ~IsMasked(AddedBand[p])
               /\ QLeq(Q(0, 1), AddedBand[p]) /\ QLeq(AddedBand[p], Q(1, 1))
               /\ QLeq(Select(iarg.image, "DRS")[p], lo) => AddedBand[p] = Q(0, 1)
               /\ QLeq(hi, Select(iarg.image, "DRS")[p]) => AddedBand[p] = Q(1, 1)

C14_Witness ==
  /\ icall = "addNDRS"
  /\ iarg.forestTypes = NoArray
  /\ iarg.landcover = <<220, 0, 230>>
  /\ iarg.image = S2Image(<<"DRS">>, <<<<Q(1, 1), Q(2, 1), Q(1, 1)>>>>)
  /\ ~iresult.error
  /\ AddedBand = <<Q(0, 1), Q(0, 1), Q(0, 1)>>

(***************************************************************************)
(* Properties of the index functions.                                      *)
(***************************************************************************)
IndexFunctions ==
  {"addCRE", "addDSWI", "addDRS", "addEVI", "addGNDVI", "addLAI", "addNBR",
   "addNDRE1", "addNDRE2", "addNDVI", "addNDWI"}

\* the name of the index of a function
IndexBand(f) ==
  CASE f = "addCRE" -> "CRE" [] f = "addDSWI" -> "DSWI"
    [] f = "addDRS" -> "DRS" [] f = "addEVI" -> "EVI"
    [] f = "addGNDVI" -> "GNDVI" [] f = "addLAI" -> "LAI"
    [] f = "addNBR" -> "NBR" [] f = "addNDRE1" -> "NDRE1"
    [] f = "addNDRE2" -> "NDRE2" [] f = "addNDVI" -> "NDVI"
    [] f = "addNDWI" -> "NDWI"

\* the Sentinel-2 bands an index is computed from
DocumentedBands(f) ==
  CASE f = "addCRE" -> {"B7", "B5"}
    [] f = "addDSWI" -> {"B8", "B3", "B4", "B11"}
    [] f = "addDRS" -> {"B4", "B11"}
    [] f = "addEVI" -> {"B8", "B4", "B2"}
    [] f = "addGNDVI" -> {"B8", "B3"}
    [] f = "addLAI" -> {"B8", "B4", "B2"}
    [] f = "addNBR" -> {"B8", "B12"}
    [] f = "addNDRE1" -> {"B6", "B5"}
    [] f = "addNDRE2" -> {"B7", "B5"}
    [] f = "addNDVI" -> {"B8", "B4"}
    [] f = "addNDWI" -> {"B3", "B8"}

\* (a - b) / (a + b)
ND(a, b, zero) == QDiv(QSub(a, b), QAdd(a, b), zero)

\* the same, masked where a or b is negative
NDOfPositive(a, b, zero) ==
  IF IsMasked(a) \/ IsMasked(b) \/ a[1] < 0 \/ b[1] < 0 THEN Masked
  ELSE ND(a, b, zero)

\* 2.5 * ((NIR - RED) / (NIR + 6 * RED - 7.5 * BLUE + 1))
EVIOf(nir, red, blue, zero) ==
  QMul(Q(5, 2),
       QDiv(QSub(nir, red),
            QAdd(QSub(QAdd(nir, QMul(Q(6, 1), red)), QMul(Q(15, 2), blue)),
                 Q(1, 1)),
            zero))

\* the index at pixel p of the image, from its documented bands
IndexValue(f, image, p, zero) ==
  LET B(name) == Select(image, name)[p]
  IN CASE f = "addCRE" -> QSub(QDiv(B("B7"), B("B5"), zero), Q(1, 1))
       [] f = "addDSWI" ->
            QDiv(QAdd(B("B8"), B("B3")), QAdd(B("B4"), B("B11")), zero)
       [] f = "addDRS" ->
            QSqrt(QAdd(QMul(B("B4"), B("B4")), QMul(B("B11"), B("B11"))))
       [] f = "addEVI" -> EVIOf(B("B8"), B("B4"), B("B2"), zero)
       [] f = "addGNDVI" -> NDOfPositive(B("B8"), B("B3"), zero)
       [] f = "addLAI" ->
            QSub(QMul(Q(3618, 1000), EVIOf(B("B8"), B("B4"), B("B2"), zero)),
                 Q(118, 1000))
       [] f = "addNBR" -> ND(B("B8"), B("B12"), zero)
       [] f = "addNDRE1" -> ND(B("B6"), B("B5"), zero)
       [] f = "addNDRE2" -> ND(B("B7"), B("B5"), zero)
       [] f = "addNDVI" -> NDOfPositive(B("B8"), B("B4"), zero)
       [] f = "addNDWI" -> ND(B("B3"), B("B8"), zero)

====
